---- MODULE Spec2Model ----
(***************************************************************************)
(* Model of TTS/tts/datasets/__init__.py: split_dataset (the train/eval    *)
(* splitter) and load_tts_samples (the multi-corpus aggregator).           *)
(*                                                                         *)
(* A sample is the Python list [audio_path, text, speaker_id], modelled as *)
(* a tuple <<aud, text, spk>>; an attention file is appended as a fourth   *)
(* field.  item[-1] is the last field of the tuple.                        *)
(*                                                                         *)
(* numpy's generator is library code.  It is modelled as a deterministic   *)
(* finite-state generator: np.random.seed(0) puts it in one fixed state,   *)
(* every draw advances the state and the value drawn is a function of the  *)
(* state and of the bound asked for.  The concrete numbers differ from     *)
(* the Mersenne Twister's; what is kept is that the stream is a function   *)
(* of the seed, that shuffle applies a permutation chosen by the stream,   *)
(* and that randint(0, n) lands in 0..n-1 and visits every index.          *)
(***************************************************************************)
EXTENDS Integers, Sequences, FiniteSets, TLC

VARIABLES
    \* ---- split_dataset ----
    items,              \* the list object passed to split_dataset
    items_eval,         \* local items_eval
    speaker_counter,    \* local Counter of speakers
    eval_split_size,    \* local eval_split_size
    is_multi_speaker,   \* local is_multi_speaker
    rng,                \* state of the process-wide numpy generator
    spc,                \* position inside split_dataset
    ret_eval, ret_train,\* the pair split_dataset returned
    \* ---- the direct caller of split_dataset ----
    caller,             \* "direct" or "load"
    arg,                \* the value the list had when the current call began
    ncalls,             \* number of split_dataset calls the direct caller made
    again,              \* how the second call was made: "same" object or "copy"
    first_eval, first_train,  \* what the first call returned
    \* ---- load_tts_samples ----
    has_datasets,       \* "datasets" in config
    datasets,           \* config.datasets
    eval_split,         \* parameter eval_split
    override,           \* parameter formatter, as the caller passed it
    formatter,          \* local (parameter) formatter, reassigned by the loop
    symbol_embedding,   \* config.symbol_embedding after lines 72-74, or None
    formatter_args_bound, \* whether the name formatter_args is bound at all
    formatter_args,     \* the dict formatter_args
    preprocessor_args,  \* local preprocessor_args
    di,                 \* index of the corpus the loop is at
    meta_data_train, meta_data_eval,         \* locals of the loop body
    meta_data_train_all, meta_data_eval_all, \* the accumulators
    calls,              \* every formatter invocation made, in order
    contrib_train, contrib_eval, \* what each corpus added at lines 103-104
    lpc,                \* position inside load_tts_samples
    err                 \* the exception that ended the call, or None

svars == <<items, items_eval, speaker_counter, eval_split_size,
           is_multi_speaker, rng, spc, ret_eval, ret_train>>
dvars == <<caller, arg, ncalls, again, first_eval, first_train>>
lvars == <<has_datasets, datasets, eval_split, override, formatter, symbol_embedding,
           formatter_args_bound, formatter_args, preprocessor_args, di,
           meta_data_train, meta_data_eval, meta_data_train_all,
           meta_data_eval_all, calls, contrib_train, contrib_eval, lpc, err>>
vars == <<svars, dvars, lvars>>

\* Python's None, where the value is otherwise a string.  A list that is
\* None in the code (the returned pair when the config has no datasets,
\* meta_data_eval_all when eval_split is false) is the empty tuple here; the
\* flag that decides it (has_datasets, eval_split) is never reassigned.
None == "None"

\* ------------------------------------------------------------------ bounds
\* Corpus sizes tried are h*100 + d for h in 0..MaxHundreds, d in {0, 1, 99}.
MaxHundreds == 2
\* One corpus large enough for 1% of it to exceed the cap of 500.
BigCorpus == 50100
\* Longest config.datasets tried.
MaxCorpora == 2

\* ----------------------------------------------------------- numpy stand-in
RngModulus == 512
RngMult(r) == r * 5
RngInc(r) == r + 3

\* one step of the generator
NextRng(r) == (RngInc(RngMult(r))) % RngModulus

\* np.random.seed(0): line 23
SeedKeep(r) == r
Seed(r) == 0

\* np.random.randint(0, n) read off generator state r: a value in 0..n-1
RandInt(r, n) == (r * n) \div RngModulus

RECURSIVE GCD(_, _)
GCD(a, b) == IF b = 0 THEN a ELSE GCD(b, a % b)

RECURSIVE Coprime(_, _)
\* the least k >= a that is coprime to n
Coprime(a, n) == IF GCD(a, n) = 1 THEN a ELSE Coprime(a + 1, n)

\* np.random.shuffle(items): line 24.  The permutation is chosen by the
\* generator state: position i receives the element at stride*(i-1)+offset.
Shuffle(s, r) ==
    LET n == Len(s)
        stride == Coprime(3 + (r % 5), n)
        offset == RandInt(r, n)
    IN  [i \in 1..n |-> s[(((i - 1) * stride + offset) % n) + 1]]

\* ------------------------------------------------------------ split_dataset
Last(item) == item[Len(item)]

Min(a, b) == IF a < b THEN a ELSE b

Range(s) == {s[i] : i \in DOMAIN s}

\* line 19 / 27: speakers = [item[-1] for item in items]
Speakers(s) == [i \in DOMAIN s |-> Last(s[i])]

\* line 20
IsMultiSpeaker(s) == Cardinality(Range(Speakers(s))) > 1

\* line 21: min(500, int(len(items) * 0.01)).  The double nearest 0.01 is
\* 0.01*(1 + 2.1e-17); for every length below 2^31 the product rounds to a
\* double whose integer part is len \div 100.
EvalSplitSize(n) == Min(500, n \div 100)

\* line 22: assert eval_split_size > 0
AssertOkLoose(k) == k >= 0
AssertOk(k) == k > 0

\* line 28: Counter(speakers)
Counter(sp) ==
    [k \in Range(sp) |-> Cardinality({i \in DOMAIN sp : sp[i] = k})]

\* line 32: the test that lets a sample move to eval
CanRemoveLoose(c) == c >= 1
CanRemove(c) == c > 1

\* line 34: speaker_counter[speaker_to_be_removed] -= 1
Decrement(cnt, k) == [cnt EXCEPT ![k] = @ - 1]

\* line 35: del items[item_idx]   (idx is 0-based)
DelItemNone(s, idx) == s
DelItem(s, idx) == SubSeq(s, 1, idx) \o SubSeq(s, idx + 2, Len(s))

\* line 37: items[:eval_split_size], items[eval_split_size:]
EvalSlice(s, k) == SubSeq(s, 1, k)
TrainSliceOffByOne(s, k) == SubSeq(s, k + 2, Len(s))
TrainSlice(s, k) == SubSeq(s, k + 1, Len(s))

\* lines 19-22: entry, sizes and the assertion
SplitEnter ==
    /\ spc = "call"
    /\ is_multi_speaker' = IsMultiSpeaker(items)
    /\ eval_split_size' = EvalSplitSize(Len(items))
    /\ spc' = IF AssertOk(EvalSplitSize(Len(items))) THEN "shuffle" ELSE "raised"
    /\ UNCHANGED <<items, items_eval, speaker_counter, rng, ret_eval, ret_train>>
    /\ UNCHANGED <<dvars, lvars>>

\* lines 23-28: seed, shuffle in place, and the multi-speaker set-up
SplitShuffle ==
    /\ spc = "shuffle"
    /\ LET r0 == Seed(rng)
           r1 == NextRng(r0)
           shuffled == Shuffle(items, r1)
       IN  /\ rng' = r1
           /\ items' = shuffled
           /\ IF is_multi_speaker
              THEN /\ items_eval' = <<>>
                   /\ speaker_counter' = Counter(Speakers(shuffled))
                   /\ spc' = "loop"
              ELSE /\ UNCHANGED <<items_eval, speaker_counter>>
                   /\ spc' = "slice"
    /\ UNCHANGED <<eval_split_size, is_multi_speaker, ret_eval, ret_train>>
    /\ UNCHANGED <<dvars, lvars>>

\* lines 29-35: one iteration of the selection loop
SplitSelect ==
    /\ spc = "loop"
    /\ Len(items_eval) < eval_split_size
    /\ LET r1 == NextRng(rng)
           item_idx == RandInt(r1, Len(items))
           speaker_to_be_removed == Last(items[item_idx + 1])
       IN  /\ rng' = r1
           /\ IF CanRemove(speaker_counter[speaker_to_be_removed])
              THEN /\ items_eval' = Append(items_eval, items[item_idx + 1])
                   /\ speaker_counter' = Decrement(speaker_counter, speaker_to_be_removed)
                   /\ items' = DelItem(items, item_idx)
              ELSE UNCHANGED <<items_eval, speaker_counter, items>>
    /\ UNCHANGED <<eval_split_size, is_multi_speaker, spc, ret_eval, ret_train>>
    /\ UNCHANGED <<dvars, lvars>>

\* lines 29, 36: the loop condition fails; return items_eval, items
SplitReturnMulti ==
    /\ spc = "loop"
    /\ ~(Len(items_eval) < eval_split_size)
    /\ ret_eval' = items_eval
    /\ ret_train' = items
    /\ spc' = "returned"
    /\ UNCHANGED <<items, items_eval, speaker_counter, eval_split_size,
                   is_multi_speaker, rng>>
    /\ UNCHANGED <<dvars, lvars>>

\* line 37: the single-speaker return
SplitReturnSingle ==
    /\ spc = "slice"
    /\ ret_eval' = EvalSlice(items, eval_split_size)
    /\ ret_train' = TrainSlice(items, eval_split_size)
    /\ spc' = "returned"
    /\ UNCHANGED <<items, items_eval, speaker_counter, eval_split_size,
                   is_multi_speaker, rng>>
    /\ UNCHANGED <<dvars, lvars>>

\* ------------------------------------------------------- the inputs tried
Patterns == {"single", "pair", "major", "tail", "round"}

\* speaker of the i-th sample of an n-sample corpus:
\*   single  one speaker
\*   pair    two speakers, alternating
\*   major   one speaker for all samples but the last
\*   tail    one speaker with two samples, then 198 speakers in turn
\*   round   100 speakers in turn
SpkOf(p, i, n) ==
    CASE p = "single" -> 1
      [] p = "pair" -> 1 + (i % 2)
      [] p = "major" -> IF i < n THEN 1 ELSE 2
      [] p = "tail" -> IF i <= 2 THEN 1 ELSE 3 + ((i - 3) % 198)
      [] OTHER -> 1 + (i % 100)

MakeItems(n, p) == [i \in 1..n |-> <<i, i, SpkOf(p, i, n)>>]

\* ---------------------------------------------------------- load_tts_samples
\* Corpus names are strings of these characters; str.lower() maps each
\* character to its lower-case form.
LowerChar(c) ==
    CASE c = "L" -> "l"
      [] c = "J" -> "j"
      [] c = "V" -> "v"
      [] OTHER -> c

\* line 135: name.lower()
Lower(name) == [i \in DOMAIN name |-> LowerChar(name[i])]

\* the formatter functions the star import of line 9 puts in the module,
\* each under its attribute name
Registry == {"lj", "vc"}

AttrName(f) == IF f = "lj" THEN <<"l", "j">> ELSE <<"v", "c">>

\* lines 132-135: getattr(thismodule, name.lower()); None stands for the
\* AttributeError of a name that is not there
GetFormatterByName(name) ==
    IF \E f \in Registry : AttrName(f) = Lower(name)
    THEN CHOOSE f \in Registry : AttrName(f) = Lower(name)
    ELSE None

\* The corpora on disk, by root path; each has a training manifest "train"
\* and may have an evaluation manifest "val".
FileSize(root_path, meta_file) ==
    CASE meta_file = "val" -> 2
      [] root_path = "corpusA" -> 100
      [] root_path = "corpusB" -> 200
      [] OTHER -> 99

\* audio paths of a corpus start at its own number
AudioBase(root_path, meta_file) ==
    (CASE root_path = "corpusA" -> 1000
       [] root_path = "corpusB" -> 2000
       [] OTHER -> 3000)
    + (IF meta_file = "val" THEN 500 ELSE 0)

\* the corpora A and B are the same sentences
TextBase(root_path) == IF root_path = "corpusC" THEN 5000 ELSE 0

\* A formatter must take root_path and meta_file (lines 54-57): a call
\* without them is a TypeError.
FormatterAccepts(args) == args.root_path # None /\ args.meta_file # None

\* A formatter parses a manifest into [audio_path, text, speaker] samples.
\* "lj" gives every sample the one speaker of the corpus; "vc" reads the
\* speaker of each line.
Formatter(f, args) ==
    LET n == FileSize(args.root_path, args.meta_file)
        base == AudioBase(args.root_path, args.meta_file)
        pat == IF f = "lj" THEN "single"
               ELSE IF args.root_path = "corpusB" THEN "major" ELSE "pair"
    IN  [i \in 1..n |->
           <<base + i, TextBase(args.root_path) + i, SpkOf(pat, i, n)>>]

\* lines 120-129: the alignment manifest of the corpus at root_path, one
\* [wav_file, attn_file] pair per line; the attention file keeps the line's
\* trailing newline
LoadAttentionMaskMetaData(root_path) ==
    [i \in 1..FileSize(root_path, "train") |->
        <<TextBase(root_path) + i, <<root_path, TextBase(root_path) + i, "\n">>>>]

\* dict(...) of line 107: a later line with the same key wins
Dict(pairs) ==
    [k \in {pairs[i][1] : i \in DOMAIN pairs} |->
        pairs[CHOOSE i \in DOMAIN pairs :
                 /\ pairs[i][1] = k
                 /\ \A j \in DOMAIN pairs : pairs[j][1] = k => j <= i][2]]

\* str.strip() on an attention file: drops the trailing newline
Strip(a) == IF Len(a) > 0 /\ a[Len(a)] = "\n" THEN SubSeq(a, 1, Len(a) - 1) ELSE a

\* lines 108 / 112: the loops enumerate the whole accumulator
AttachTargets(all) == DOMAIN all

\* line 109 raises KeyError when a sample's text is no key of meta_data
AttachFails(all, pairs) ==
    LET meta_data == Dict(pairs)
    IN  \E i \in AttachTargets(all) : all[i][2] \notin DOMAIN meta_data

\* the loop of lines 108-110: meta_data[ins[1]].strip() appended to each sample
Attach(all, pairs) ==
    LET meta_data == Dict(pairs)
        targets == AttachTargets(all)
    IN  [i \in DOMAIN all |->
            IF i \in targets
            THEN Append(all[i], Strip(meta_data[all[i][2]]))
            ELSE all[i]]

\* line 104 / 103: accumulator += contribution
ExtendFront(all, more) == more \o all
Extend(all, more) == all \o more

\* line 116: formatter = None
ResetFormatterKeep(f) == f
ResetFormatter(f) == None

\* the corpus descriptors configs are built from
Descriptor(name, path, val, attn) ==
    [name |-> name, path |-> path, meta_file_train |-> "train",
     meta_file_val |-> val, meta_file_attn_mask |-> attn]

Catalogue ==
    { Descriptor(<<"L", "J">>, "corpusA", None, FALSE),
      Descriptor(<<"V", "c">>, "corpusB", None, TRUE),
      Descriptor(<<"l", "j">>, "corpusA", "val", FALSE),
      Descriptor(<<"L", "J">>, "corpusC", None, TRUE),
      Descriptor(<<"x">>, "corpusA", None, FALSE) }

Configs == UNION {[1..n -> Catalogue] : n \in 0..MaxCorpora}

NoArgs == [root_path |-> None, meta_file |-> None, symbol_embedding |-> None]

\* load_tts_samples is not running
LoadIdle ==
    /\ has_datasets = FALSE /\ datasets = <<>> /\ eval_split = FALSE /\ override = None
    /\ formatter = None /\ symbol_embedding = None
    /\ formatter_args_bound = FALSE /\ formatter_args = NoArgs
    /\ preprocessor_args = NoArgs /\ di = 0
    /\ meta_data_train = <<>> /\ meta_data_eval = <<>>
    /\ meta_data_train_all = <<>> /\ meta_data_eval_all = <<>>
    /\ calls = <<>> /\ contrib_train = <<>> /\ contrib_eval = <<>>
    /\ lpc = "idle" /\ err = None

LoadInit ==
    /\ has_datasets \in BOOLEAN
    /\ datasets \in IF has_datasets THEN Configs ELSE {<<>>}
    /\ eval_split \in BOOLEAN
    /\ override \in Registry \cup {None}
    /\ formatter = override
    /\ symbol_embedding \in {None, "emb"}
    \* formatter_args is assigned to at line 83 and defined nowhere in the
    \* file; it is bound only if a star import of lines 8-9 binds it
    /\ formatter_args_bound \in BOOLEAN
    /\ formatter_args = NoArgs
    /\ preprocessor_args = NoArgs
    /\ di = 0
    /\ meta_data_train = <<>> /\ meta_data_eval = <<>>
    /\ meta_data_train_all = <<>> /\ meta_data_eval_all = <<>>
    /\ calls = <<>> /\ contrib_train = <<>> /\ contrib_eval = <<>>
    /\ lpc = "start" /\ err = None
    /\ items = <<>> /\ items_eval = <<>> /\ speaker_counter = <<>>
    /\ eval_split_size = 0 /\ is_multi_speaker = FALSE
    /\ rng = 7
    /\ spc = "idle"
    /\ ret_eval = <<>> /\ ret_train = <<>>
    /\ caller = "load" /\ arg = <<>> /\ ncalls = 0 /\ again = None
    /\ first_eval = <<>> /\ first_train = <<>>

Fail(e) ==
    /\ lpc' = "failed"
    /\ err' = e

\* lines 117 / 80: the loop goes to corpus i or, past the last one, returns
LoopTo(i) ==
    /\ di' = i
    /\ lpc' = IF i <= Len(datasets) THEN "corpus" ELSE "done"

\* lines 62-78: the early return and the set-up of the accumulators
LoadStart ==
    /\ lpc = "start"
    /\ IF ~has_datasets
       THEN /\ lpc' = "done"
            /\ UNCHANGED <<meta_data_train_all, meta_data_eval_all,
                           preprocessor_args, di>>
       ELSE /\ meta_data_train_all' = <<>>
            /\ meta_data_eval_all' = <<>>
            /\ preprocessor_args' =
                  [NoArgs EXCEPT !.symbol_embedding = symbol_embedding]
            /\ LoopTo(1)
    /\ UNCHANGED <<has_datasets, datasets, eval_split, override, formatter, symbol_embedding,
                   formatter_args_bound, formatter_args, meta_data_train,
                   meta_data_eval, calls, contrib_train, contrib_eval, err>>
    /\ UNCHANGED <<svars, dvars>>

\* lines 81-94: resolve the formatter and load the training manifest
LoadTrain ==
    /\ lpc = "corpus"
    /\ LET dataset == datasets[di]
           fargs == [formatter_args EXCEPT !.root_path = dataset.path,
                                           !.meta_file = dataset.meta_file_train]
           f == IF formatter = None THEN GetFormatterByName(dataset.name)
                ELSE formatter
       IN  IF ~formatter_args_bound
           THEN /\ Fail("NameError")
                /\ UNCHANGED <<formatter_args, formatter, meta_data_train, calls>>
           ELSE IF f = None
           THEN /\ Fail("AttributeError")
                /\ formatter_args' = [formatter_args EXCEPT !.root_path = dataset.path]
                /\ UNCHANGED <<formatter, meta_data_train, calls>>
           ELSE /\ formatter_args' = fargs
                /\ formatter' = f
                /\ calls' = Append(calls, [fmt |-> f, corpus |-> di,
                                           for |-> "train", args |-> fargs])
                /\ meta_data_train' = Formatter(f, fargs)
                /\ lpc' = "eval"
                /\ UNCHANGED err
    /\ UNCHANGED <<has_datasets, datasets, eval_split, override, symbol_embedding,
                   formatter_args_bound, preprocessor_args, di, meta_data_eval,
                   meta_data_train_all, meta_data_eval_all, contrib_train,
                   contrib_eval>>
    /\ UNCHANGED <<svars, dvars>>

\* lines 96-102: the evaluation manifest, or the call of split_dataset
LoadEval ==
    /\ lpc = "eval"
    /\ LET dataset == datasets[di]
       IN  IF ~eval_split
           THEN /\ lpc' = "accumulate"
                /\ UNCHANGED <<formatter_args, calls, meta_data_eval, err,
                               contrib_eval, meta_data_eval_all>>
                /\ UNCHANGED <<svars, dvars>>
           ELSE IF dataset.meta_file_val # None
           THEN /\ formatter_args' =
                      [formatter_args EXCEPT !.meta_file = dataset.meta_file_val]
                /\ calls' = Append(calls, [fmt |-> formatter, corpus |-> di,
                                           for |-> "eval", args |-> preprocessor_args])
                /\ LET got == Formatter(formatter, preprocessor_args)
                   IN  IF ~FormatterAccepts(preprocessor_args)
                       THEN /\ Fail("TypeError")
                            /\ UNCHANGED <<meta_data_eval, contrib_eval,
                                           meta_data_eval_all>>
                       ELSE /\ meta_data_eval' = got
                            /\ meta_data_eval_all' = Extend(meta_data_eval_all, got)
                            /\ contrib_eval' = Append(contrib_eval, got)
                            /\ lpc' = "accumulate"
                            /\ UNCHANGED err
                /\ UNCHANGED <<svars, dvars>>
           ELSE /\ items' = meta_data_train
                /\ arg' = meta_data_train
                /\ spc' = "call"
                /\ lpc' = "split"
                /\ UNCHANGED <<formatter_args, calls, meta_data_eval, err,
                               contrib_eval, meta_data_eval_all>>
                /\ UNCHANGED <<items_eval, speaker_counter, eval_split_size,
                               is_multi_speaker, rng, ret_eval, ret_train>>
                /\ UNCHANGED <<caller, ncalls, again, first_eval, first_train>>
    /\ UNCHANGED <<has_datasets, datasets, eval_split, override, formatter, symbol_embedding,
                   formatter_args_bound, preprocessor_args, di, meta_data_train,
                   meta_data_train_all, contrib_train>>

\* lines 102-103: split_dataset returned
LoadSplitReturned ==
    /\ lpc = "split" /\ spc = "returned"
    /\ meta_data_eval' = ret_eval
    /\ meta_data_train' = ret_train
    /\ meta_data_eval_all' = Extend(meta_data_eval_all, ret_eval)
    /\ contrib_eval' = Append(contrib_eval, ret_eval)
    /\ lpc' = "accumulate"
    /\ spc' = "idle"
    /\ UNCHANGED <<has_datasets, datasets, eval_split, override, formatter, symbol_embedding,
                   formatter_args_bound, formatter_args, preprocessor_args, di,
                   meta_data_train_all, calls, contrib_train, err>>
    /\ UNCHANGED <<items, items_eval, speaker_counter, eval_split_size,
                   is_multi_speaker, rng, ret_eval, ret_train>>
    /\ UNCHANGED dvars

\* line 102: the assertion of split_dataset failed; nothing catches it
LoadSplitRaised ==
    /\ lpc = "split" /\ spc = "raised"
    /\ Fail("AssertionError")
    /\ UNCHANGED <<has_datasets, datasets, eval_split, override, formatter, symbol_embedding,
                   formatter_args_bound, formatter_args, preprocessor_args, di,
                   meta_data_train, meta_data_eval, meta_data_train_all,
                   meta_data_eval_all, calls, contrib_train, contrib_eval>>
    /\ UNCHANGED <<svars, dvars>>

\* lines 104-116: accumulate the training samples, attach the attention
\* files, reset the formatter and go on to the next corpus
LoadAccumulate ==
    /\ lpc = "accumulate"
    /\ LET dataset == datasets[di]
           train_all == Extend(meta_data_train_all, meta_data_train)
           pairs == LoadAttentionMaskMetaData(dataset.path)
           do_eval == meta_data_eval_all # <<>>
           train_att == Attach(train_all, pairs)
           eval_att == IF do_eval
                       THEN Attach(meta_data_eval_all, pairs)
                       ELSE meta_data_eval_all
       IN  /\ contrib_train' = Append(contrib_train, meta_data_train)
           /\ IF ~dataset.meta_file_attn_mask
              THEN /\ meta_data_train_all' = train_all
                   /\ formatter' = ResetFormatter(formatter)
                   /\ LoopTo(di + 1)
                   /\ UNCHANGED <<meta_data_eval_all, err>>
              ELSE IF \/ AttachFails(train_all, pairs)
                      \/ do_eval /\ AttachFails(meta_data_eval_all, pairs)
              THEN /\ Fail("KeyError")
                   /\ meta_data_train_all' = train_all
                   /\ UNCHANGED <<meta_data_eval_all, formatter, di>>
              ELSE /\ meta_data_train_all' = train_att
                   /\ meta_data_eval_all' = eval_att
                   /\ formatter' = ResetFormatter(formatter)
                   /\ LoopTo(di + 1)
                   /\ UNCHANGED err
    /\ UNCHANGED <<has_datasets, datasets, eval_split, override, symbol_embedding,
                   formatter_args_bound, formatter_args, preprocessor_args,
                   meta_data_train, meta_data_eval, calls, contrib_eval>>
    /\ UNCHANGED <<svars, dvars>>

LoadNext ==
    \/ LoadStart
    \/ LoadTrain
    \/ LoadEval
    \/ SplitEnter
    \/ SplitShuffle
    \/ SplitSelect
    \/ SplitReturnMulti
    \/ SplitReturnSingle
    \/ LoadSplitReturned
    \/ LoadSplitRaised
    \/ LoadAccumulate

LoadSpec == LoadInit /\ [][LoadNext]_vars

\* ------------------------------------------- a caller of split_dataset alone
Sizes == {h * 100 + d : h \in 0..MaxHundreds, d \in {0, 1, 99}} \ {0}

Inputs ==
    {MakeItems(n, p) : n \in Sizes, p \in Patterns}
        \cup {MakeItems(BigCorpus, "single")}

SmallInputs == {MakeItems(n, p) : n \in Sizes, p \in Patterns}

DirectInit(inputs) ==
    /\ \E in \in inputs : items = in /\ arg = in
    /\ items_eval = <<>>
    /\ speaker_counter = <<>>
    /\ eval_split_size = 0
    /\ is_multi_speaker = FALSE
    /\ rng \in {0, 7}
    /\ spc = "call"
    /\ ret_eval = <<>> /\ ret_train = <<>>
    /\ caller = "direct"
    /\ ncalls = 1
    /\ again = None
    /\ first_eval = <<>> /\ first_train = <<>>
    /\ LoadIdle

\* the caller calls split_dataset(items) again on the list object it holds
CallAgainSame ==
    /\ caller = "direct" /\ spc = "returned" /\ ncalls = 1
    /\ ncalls' = 2 /\ again' = "same"
    /\ first_eval' = ret_eval /\ first_train' = ret_train
    /\ ret_eval' = <<>> /\ ret_train' = <<>>
    /\ spc' = "call"
    /\ arg' = items
    /\ UNCHANGED <<items, items_eval, speaker_counter, eval_split_size,
                   is_multi_speaker, rng, caller>>
    /\ UNCHANGED lvars

\* the caller calls split_dataset on a fresh list equal to the first input
CallAgainCopy ==
    /\ caller = "direct" /\ spc = "returned" /\ ncalls = 1
    /\ ncalls' = 2 /\ again' = "copy"
    /\ first_eval' = ret_eval /\ first_train' = ret_train
    /\ ret_eval' = <<>> /\ ret_train' = <<>>
    /\ items' = arg
    /\ spc' = "call"
    /\ UNCHANGED <<items_eval, speaker_counter, eval_split_size,
                   is_multi_speaker, rng, caller, arg>>
    /\ UNCHANGED lvars

\* one call of split_dataset on each input
SplitInit == DirectInit(Inputs)

SplitNext ==
    \/ SplitEnter
    \/ SplitShuffle
    \/ SplitSelect
    \/ SplitReturnMulti
    \/ SplitReturnSingle

SplitSpec == SplitInit /\ [][SplitNext]_vars

\* a caller that may call split_dataset a second time
AgainInit == DirectInit(SmallInputs)

AgainNext ==
    \/ SplitNext
    \/ CallAgainSame
    \/ CallAgainCopy

AgainSpec == AgainInit /\ [][AgainNext]_vars

\* Python keeps executing a call that is in the selection loop: the next
\* iteration, or the return, is always taken.  (Only the caller's second
\* call is optional.)
LoopStep == SplitSelect \/ SplitReturnMulti

FairAgainSpec == AgainSpec /\ WF_vars(LoopStep)

\* ------------------------------------------------------------------ claims
InputSize == Len(arg)

\* The samples of an input are pairwise distinct (their audio paths are), so
\* a list holds every input sample exactly once iff it is as long as the
\* input and has the same elements.
HoldsInputOnce(s) ==
    /\ Len(s) = InputSize
    /\ Range(s) = Range(arg)
    /\ Cardinality(Range(arg)) = InputSize

\* C1: a single-speaker call that returns gives eval of exactly
\* min(500, floor(0.01*N)) samples and train of the other N minus that many,
\* and the two together hold every input sample exactly once.
C1_SingleSpeakerSplit ==
    (spc = "returned" /\ ~is_multi_speaker) =>
        /\ Len(ret_eval) = Min(500, InputSize \div 100)
        /\ Len(ret_train) = InputSize - Min(500, InputSize \div 100)
        /\ HoldsInputOnce(ret_eval \o ret_train)

C1_Witness ==
    /\ spc = "returned" /\ ~is_multi_speaker
    /\ InputSize = 299 /\ Len(ret_eval) = 2 /\ Len(ret_train) = 297

\* C2: throughout the multi-speaker selection loop and in the result, every
\* speaker of the input keeps at least one sample in the pool and the count
\* table equals the real per-speaker counts of the pool.  (The table is
\* decremented at every move, so a move made at a count of 1 or less would
\* leave a count below 1: the move-only-when-above-1 clause is this invariant.)
C2_KeepsEverySpeaker ==
    (spc \in {"loop", "returned"} /\ is_multi_speaker) =>
        /\ DOMAIN speaker_counter = Range(Speakers(arg))
        /\ speaker_counter = Counter(Speakers(items))
        /\ \A k \in DOMAIN speaker_counter : speaker_counter[k] >= 1
        /\ spc = "returned" => Range(Speakers(ret_train)) = Range(Speakers(arg))

C2_Witness ==
    /\ spc = "returned" /\ is_multi_speaker /\ ncalls = 1
    /\ \E k \in DOMAIN speaker_counter : speaker_counter[k] = 1
    /\ Len(ret_eval) >= 2

\* C10: throughout the multi-speaker selection loop eval and pool are
\* disjoint, their sizes sum to N and together they are the input; on return
\* eval has min(500, floor(0.01*N)) samples and train the other N minus that.
C10_MultiSpeakerPartition ==
    (spc \in {"loop", "returned"} /\ is_multi_speaker) =>
        /\ Len(items_eval) + Len(items) = InputSize
        /\ HoldsInputOnce(items_eval \o items)
        /\ spc = "returned" =>
              /\ ret_eval = items_eval /\ ret_train = items
              /\ Len(ret_eval) = Min(500, InputSize \div 100)
              /\ Len(ret_train) = InputSize - Min(500, InputSize \div 100)

C10_Witness ==
    /\ spc = "returned" /\ is_multi_speaker
    /\ Len(ret_eval) = 2 /\ Len(ret_train) = InputSize - 2

\* C7 (as amended): a second call of split_dataset on a fresh list equal to
\* the first call's input returns the same eval and train lists as the first.
C7_SameInputSameSplit ==
    (again = "copy" /\ spc = "returned") =>
        ret_eval = first_eval /\ ret_train = first_train

C7_Witness ==
    /\ again = "copy" /\ spc = "returned"
    /\ is_multi_speaker /\ Len(ret_eval) = 2

\* C7 (as claimed): any second call, also one on the list object the first
\* call was given, returns the same eval and train lists as the first.
C7_AnyRepeatSameSplit ==
    (ncalls = 2 /\ spc = "returned") =>
        ret_eval = first_eval /\ ret_train = first_train

\* C8: a call that enters the selection loop leaves it, by returning or by
\* failing; it does not run forever.
C8_SelectionLoopEnds == (spc = "loop") ~> (spc \in {"returned", "raised"})

\* ---- load_tts_samples ----
RECURSIVE Flatten(_)
Flatten(ss) == IF ss = <<>> THEN <<>> ELSE Head(ss) \o Flatten(Tail(ss))

\* the [audio_path, text, speaker_id] part of each sample
Core(s) == [i \in DOMAIN s |-> SubSeq(s[i], 1, 3)]

\* C3: an input of fewer than 100 samples makes split_dataset fail, with
\* the list as it was passed (nothing shuffled), and only such an input
\* does; load_tts_samples then fails with that error and never returns.
C3_TooSmallFails ==
    /\ (spc \notin {"idle", "call"} /\ Len(arg) < 100) => spc = "raised"
    /\ spc = "raised" =>
          /\ Len(arg) < 100
          /\ items = arg
          /\ lpc \in {"split", "failed"}
          /\ lpc = "failed" => err = "AssertionError"
    /\ err = "AssertionError" => lpc = "failed" /\ spc = "raised"

C3_Witness ==
    /\ lpc = "failed" /\ err = "AssertionError"
    /\ di = 2 /\ Len(arg) > 0

\* C4: when load_tts_samples returns, the train list is the corpora's train
\* contributions one after the other in config order, so its length is the
\* sum of theirs; likewise the eval list when eval_split was asked for.
C4_CorpusOrder ==
    (lpc = "done" /\ has_datasets) =>
        /\ Len(contrib_train) = Len(datasets)
        /\ Core(meta_data_train_all) = Flatten(contrib_train)
        /\ eval_split =>
              /\ Len(contrib_eval) = Len(datasets)
              /\ Core(meta_data_eval_all) = Flatten(contrib_eval)

C4_Witness ==
    /\ lpc = "done" /\ eval_split /\ Len(datasets) = 2
    /\ datasets[1].path # datasets[2].path
    /\ Len(contrib_train[1]) = 99 /\ Len(contrib_train[2]) = 198
    /\ Len(contrib_eval[1]) = 1 /\ Len(contrib_eval[2]) = 2

\* what corpus k's samples look like with their own attention file attached
Annotated(own, k) ==
    IF datasets[k].meta_file_attn_mask
    THEN [i \in DOMAIN own |->
            Append(own[i], <<datasets[k].path, own[i][2]>>)]
    ELSE own

Expected(contrib) ==
    Flatten([k \in DOMAIN contrib |-> Annotated(contrib[k], k)])

\* C5: when load_tts_samples returns, a sample has a trailing attention
\* field iff its own corpus declares an alignment manifest, exactly one, and
\* it is the file that corpus's manifest gives its text; and no lookup is
\* made for another corpus's samples, so none fails.
C5_OwnAttentionOnly ==
    /\ lpc = "done" =>
          /\ meta_data_train_all = Expected(contrib_train)
          /\ meta_data_eval_all = Expected(contrib_eval)
    /\ err # "KeyError"

\* C6: a formatter call made for a corpus's evaluation manifest is given
\* that corpus's root path and evaluation manifest name, and the shared
\* resources; the load goes on from it without calling split_dataset.
C6_EvalManifestCall ==
    \A i \in DOMAIN calls :
        calls[i].for = "eval" =>
            /\ calls[i].args.root_path = datasets[calls[i].corpus].path
            /\ calls[i].args.meta_file = datasets[calls[i].corpus].meta_file_val
            /\ calls[i].args.symbol_embedding = symbol_embedding
            /\ err # "TypeError"

====
